---- MODULE Spec2Model ----
(***************************************************************************)
(* Model of the per-camera tracking / steering loop of autoptz             *)
(* (views/widgets/camera_widget.py, class CameraWidget) together with the  *)
(* recognition thread that publishes the detection snapshot it reads.      *)
(*                                                                         *)
(* Python None is the string "None" for names, commands and handles, -1    *)
(* for the track_x/y/w/h coordinates, <<>> for a box and 0 for a snapshot  *)
(* sequence that has not been published.  A box is <<left, top, right,     *)
(* bottom>>; a face location is <<top, right, bottom, left>> as in the     *)
(* recognizer's output.                                                    *)
(***************************************************************************)
EXTENDS Integers, Sequences, FiniteSets, TLC

None == "None"
NoneI == -1
NoBox == <<>>
NoList == 0
NoCall == [api |-> "none", method |-> "none", pan |-> 0, tilt |-> 0]

Cams == {1, 2}

\* the PTZ devices a widget can be bound to
Devices == {"usb_cam", "ndi_cam"}

\* the prototype loop before its first iteration, and no iteration recorded
ProtoStart ==
  [enable_motion |-> FALSE, track_started |-> FALSE, tracker |-> NoBox,
   x |-> NoneI, y |-> NoneI, w |-> NoneI, h |-> NoneI]
ProtoBlank ==
  [faces |-> 0, active |-> FALSE, reseeded |-> FALSE, advanced |-> FALSE,
   nullcall |-> FALSE, rect |-> NoBox]

\* the face image folders, and the values train_face(True) may return
FaceDirs == {"a", "b", "c", "d"}
TrainReturns == {"None", "callable"}

\* the remove-face dialog before it is opened: every folder present and the
\* recognition model trained on all of them
DlgStart ==
  [window |-> "closed", pc |-> "idle", dirs |-> FaceDirs, model |-> FaceDirs,
   trained_by |-> "none", target |-> "None", worker |-> "none", called |-> FALSE]

\* ------------------------------------------------------------------ bounds
\* frames queued by the capture thread and not yet delivered to update_image
MaxPending == 1

\* frame sizes above the smallest one (160 x 120) tried pixel by pixel
ZoneSpan == 2

\* faces the cascade detector returns on one frame of the prototype loop
MaxFaces == 2

\* ------------------------------------------------------- input universes
FrameDims == {<<800, 600>>}

\* frame sizes (width, height) from 160 x 120 up
ZoneDims ==
  {<<160 + i, 120 + j>> : i \in 0..ZoneSpan, j \in 0..ZoneSpan}
    \cup {<<640, 480>>, <<800, 600>>, <<1280, 720>>, <<1920, 1080>>}

BoxLeft == <<10, 40, 50, 60>>
BoxStop == <<200, 100, 400, 300>>
BoxDownRight == <<700, 50, 750, 400>>
BoxUpLeft == <<10, 10, 50, 30>>
BoxEdge == <<86, 100, 400, 300>>

\* a recognizer detection: location (top, right, bottom, left), label, confidence
Det(box, name, conf) == [loc |-> <<box[2], box[3], box[4], box[1]>>, name |-> name, conf |-> conf]

\* the detection results a recognition cycle can produce
Snapshots ==
  << << Det(BoxLeft, "a", "91%") >>,
     << Det(BoxStop, "b", "80%"), Det(BoxDownRight, "a", "75%") >>,
     << Det(BoxDownRight, "a", "70%"), Det(BoxStop, "b", "66%"), Det(BoxLeft, "a", "52%") >> >>

SnapIds == {1, 2}
SmallSnapIds == {1}
\* with a result holding two detections of the same label
DupSnapIds == {1, 3}

\* boxes the correlation tracker can report from get_position()
PredBoxes == {BoxStop, BoxUpLeft}
SmallPredBoxes == {BoxStop}
EdgePredBoxes == {BoxEdge}

\* external calls of track_face that can raise
Failures == {"tracker", "actuator"}

Names == {"a", "b"}
SmallNames == {"a"}

\* (control, isUSB) arguments of set_ptz
PtzArgs == {<<None, "False">>, <<"usb_cam", "True">>}
BothPtzArgs == {<<"usb_cam", "True">>, <<"ndi_cam", "False">>}
SmallPtzArgs == {<<"usb_cam", "True">>}
AllPtzArgs == {<<None, "False">>, <<"usb_cam", "True">>, <<"ndi_cam", "False">>}

\* ------------------------------------------------------- snapshot fields
LocationsOf(k) == IF k = NoList THEN <<>> ELSE [i \in 1..Len(Snapshots[k]) |-> Snapshots[k][i].loc]
NamesOf(k) == IF k = NoList THEN <<>> ELSE [i \in 1..Len(Snapshots[k]) |-> Snapshots[k][i].name]
ConfidenceOf(k) == IF k = NoList THEN <<>> ELSE [i \in 1..Len(Snapshots[k]) |-> Snapshots[k][i].conf]

Min(a, b) == IF a < b THEN a ELSE b

\* zip(face_locations, face_names, confidence_list): stops at the shortest
Zip(locs, names, confs) ==
  [i \in 1..Min(Len(locs), Min(Len(names), Len(confs))) |->
     [loc |-> locs[i], name |-> names[i], conf |-> confs[i]]]

\* ------------------------------------------------------- actuator calls
Truthy(b) == b = "True"

UsbMethod(cmd) ==
  CASE cmd = "stop" -> "move_stop"
    [] cmd = "up_left" -> "move_left_up_track"
    [] cmd = "up_right" -> "move_right_up_track"
    [] cmd = "down_left" -> "move_left_down_track"
    [] cmd = "down_right" -> "move_right_down_track"
    [] cmd = "up" -> "move_up_track"
    [] cmd = "down" -> "move_down_track"
    [] cmd = "left" -> "move_left_track"
    [] cmd = "right" -> "move_right_track"

\* (pan_speed, tilt_speed) in tenths
NdiSpeed(cmd) ==
  CASE cmd = "stop" -> <<0, 0>>
    [] cmd = "up_left" -> <<1, 1>>
    [] cmd = "up_right" -> <<-1, 1>>
    [] cmd = "down_left" -> <<1, -1>>
    [] cmd = "down_right" -> <<-1, -1>>
    [] cmd = "up" -> <<0, 1>>
    [] cmd = "down" -> <<0, -1>>
    [] cmd = "left" -> <<1, 0>>
    [] cmd = "right" -> <<-1, 0>>

\* the call made on the actuator for a command, by binding type
ActuatorCall(cmd, is_usb) ==
  IF Truthy(is_usb)
    THEN [api |-> "usb", method |-> UsbMethod(cmd), pan |-> 0, tilt |-> 0]
    ELSE [api |-> "ndi", method |-> "recv_ptz_pan_tilt_speed",
          pan |-> NdiSpeed(cmd)[1], tilt |-> NdiSpeed(cmd)[2]]

\* ------------------------------------------------------- dead zone
\* the bounds with the two horizontal divisors exchanged
DeadZoneSwapped(dims) ==
  [min_x |-> (10 * dims[1]) \div 12,
   max_x |-> (10 * dims[1]) \div 92,
   min_y |-> dims[2] \div 18,
   max_y |-> (10 * dims[2]) \div 16]

\* int(w / 9.2), int(w / 1.2), int(h / 18), int(h / 1.6): int() truncates,
\* which on positive sizes is the floor of the quotient
DeadZone(dims) ==
  [min_x |-> (10 * dims[1]) \div 92,
   max_x |-> (10 * dims[1]) \div 12,
   min_y |-> dims[2] \div 18,
   max_y |-> (10 * dims[2]) \div 16]

\* no dead zone computed (track_face not entered)
NoZone == [min_x |-> 0, max_x |-> 0, min_y |-> 0, max_y |-> 0]

\* the stop branch taken whenever stop is not the command in force
StopStepAlways(b, dz, lr) ==
  IF lr # "stop" THEN "stop" ELSE None

\* x > min_x and w < max_x and y > min_y and h < max_y and last_request != "stop"
StopStep(b, dz, lr) ==
  IF b[1] > dz.min_x /\ b[3] < dz.max_x /\ b[2] > dz.min_y /\ b[4] < dz.max_y /\ lr # "stop"
    THEN "stop" ELSE None

\* the chain with the single-axis branches tested before the diagonal ones
DirStepAxisFirst(b, dz, lr) ==
  IF b[2] < dz.min_y /\ lr # "up" THEN "up"
  ELSE IF b[4] > dz.max_y /\ lr # "down" THEN "down"
  ELSE IF b[1] < dz.min_x /\ lr # "left" THEN "left"
  ELSE IF b[3] > dz.max_x /\ lr # "right" THEN "right"
  ELSE IF b[2] < dz.min_y /\ b[1] < dz.min_x /\ lr # "up_left" THEN "up_left"
  ELSE IF b[2] < dz.min_y /\ b[3] > dz.max_x /\ lr # "up_right" THEN "up_right"
  ELSE IF b[4] > dz.max_y /\ b[1] < dz.min_x /\ lr # "down_left" THEN "down_left"
  ELSE IF b[4] > dz.max_y /\ b[3] > dz.max_x /\ lr # "down_right" THEN "down_right"
  ELSE None

\* the if / elif chain of the eight directions; the debounce test is part of
\* each branch condition, so a branch whose command equals last_request falls
\* through to the branches below it
DirStep(b, dz, lr) ==
  IF b[2] < dz.min_y /\ b[1] < dz.min_x /\ lr # "up_left" THEN "up_left"
  ELSE IF b[2] < dz.min_y /\ b[3] > dz.max_x /\ lr # "up_right" THEN "up_right"
  ELSE IF b[4] > dz.max_y /\ b[1] < dz.min_x /\ lr # "down_left" THEN "down_left"
  ELSE IF b[4] > dz.max_y /\ b[3] > dz.max_x /\ lr # "down_right" THEN "down_right"
  ELSE IF b[2] < dz.min_y /\ lr # "up" THEN "up"
  ELSE IF b[4] > dz.max_y /\ lr # "down" THEN "down"
  ELSE IF b[1] < dz.min_x /\ lr # "left" THEN "left"
  ELSE IF b[3] > dz.max_x /\ lr # "right" THEN "right"
  ELSE None

\* the steering block of track_face: commands sent, in order, and the
\* resulting last_request
Steer(b, dims, lr) ==
  LET dz == DeadZone(dims)
      s == StopStep(b, dz, lr)
      lr1 == IF s # None THEN s ELSE lr
      d == DirStep(b, dz, lr1)
  IN [cmds |-> (IF s # None THEN <<s>> ELSE <<>>) \o (IF d # None THEN <<d>> ELSE <<>>),
      lr |-> IF d # None THEN d ELSE lr1]

\* the tracker block reseeding only a tracker that has not been started
TrackerStepSeedOnce(started, temp, name, box, pos) ==
  IF started = FALSE
    THEN [tracker |-> box, box |-> box, seeded |-> TRUE,
          reseeded |-> TRUE, advanced |-> FALSE]
    ELSE [tracker |-> pos, box |-> pos, seeded |-> FALSE,
          reseeded |-> FALSE, advanced |-> TRUE]

\* the start_track / update block of track_face; pos is what
\* tracker.get_position() returns after tracker.update()
TrackerStep(started, temp, name, box, pos) ==
  IF temp = name
    THEN [tracker |-> box, box |-> box, seeded |-> started = FALSE,
          reseeded |-> TRUE, advanced |-> FALSE]
    ELSE [tracker |-> pos, box |-> pos, seeded |-> started = FALSE,
          reseeded |-> FALSE, advanced |-> TRUE]

\* the guard without the is_tracking test
ShouldTrackNoFlag(tracking, x, y, w, h) ==
  x # NoneI /\ y # NoneI /\ w # NoneI /\ h # NoneI

\* the guard of draw_on_frame for calling track_face
ShouldTrack(tracking, x, y, w, h) ==
  tracking /\ x # NoneI /\ y # NoneI /\ w # NoneI /\ h # NoneI

\* the loop stopping at the first entry labelled name
LoopFirst(z, i, name, st) ==
  LET ms == {j \in i..Len(z) : z[j].name = name}
      k == CHOOSE j \in ms : \A m \in ms : j <= m
  IN IF ms = {} THEN st
     ELSE [temp |-> z[k].name, x |-> z[k].loc[4], y |-> z[k].loc[1],
           w |-> z[k].loc[2], h |-> z[k].loc[3]]

\* the loop of draw_on_frame over the zipped snapshot, from entry i on
RECURSIVE Loop(_, _, _, _)
Loop(z, i, name, st) ==
  IF i > Len(z) THEN st
  ELSE Loop(z, i + 1, name,
            IF z[i].name = name
              THEN [temp |-> z[i].name, x |-> z[i].loc[4], y |-> z[i].loc[1],
                    w |-> z[i].loc[2], h |-> z[i].loc[3]]
              ELSE st)

\* the attribute stored on the class, shared by every instance
AssignShared(f, c, v) == [x \in DOMAIN f |-> v]

\* self.attr = v on the instance c
Assign(f, c, v) == [f EXCEPT ![c] = v]

VARIABLES
  is_tracking, tracked_name, track_started, temp_tracked_name,
  track_x, track_y, track_w, track_h, last_request,
  ptz_controller, ptz_is_usb, tracker,
  face_locations, face_names, confidence_list, proc_pc, proc_new, lock,
  ui_pc, ui_cam, rd_locs, rd_names, pending, stop_called,
  CURRENT_ACTIVE_CAM_WIDGET, active,
  disp, lastSent, sentTo, last, quiet,
  proto, protoLast, dlg

trackVars == <<is_tracking, tracked_name, track_started, temp_tracked_name,
               track_x, track_y, track_w, track_h, last_request, tracker>>
ptzVars == <<ptz_controller, ptz_is_usb>>
procVars == <<face_locations, face_names, confidence_list, proc_pc, proc_new, lock>>
uiVars == <<ui_pc, ui_cam, rd_locs, rd_names>>
selVars == <<CURRENT_ACTIVE_CAM_WIDGET, active>>
ghostVars == <<disp, lastSent, sentTo, last, quiet>>
protoVars == <<proto, protoLast, dlg>>
vars == <<trackVars, ptzVars, procVars, uiVars, pending, stop_called, selVars, protoVars, ghostVars>>

\* record of the most recent handler run on a camera (history only)
BlankLast(op) ==
  [op |-> op, req0 |-> None, entered |-> FALSE, raised |-> FALSE, failed |-> "none",
   seeded |-> FALSE, reseeded |-> FALSE, advanced |-> FALSE, box |-> NoBox,
   dims |-> <<0, 0>>, zone |-> NoZone, arg |-> "-"]

Init ==
  /\ is_tracking = [c \in Cams |-> FALSE]
  /\ tracked_name = [c \in Cams |-> None]
  /\ track_started = [c \in Cams |-> FALSE]
  /\ temp_tracked_name = [c \in Cams |-> None]
  /\ track_x = [c \in Cams |-> NoneI]
  /\ track_y = [c \in Cams |-> NoneI]
  /\ track_w = [c \in Cams |-> NoneI]
  /\ track_h = [c \in Cams |-> NoneI]
  /\ last_request = [c \in Cams |-> None]
  /\ ptz_controller = [c \in Cams |-> None]
  /\ ptz_is_usb = [c \in Cams |-> None]
  /\ tracker = [c \in Cams |-> NoBox]
  /\ face_locations = [c \in Cams |-> NoList]
  /\ face_names = [c \in Cams |-> NoList]
  /\ confidence_list = [c \in Cams |-> NoList]
  /\ proc_pc = [c \in Cams |-> "idle"]
  /\ proc_new = [c \in Cams |-> NoList]
  /\ lock = 0
  /\ ui_pc = "idle"
  /\ ui_cam = 0
  /\ rd_locs = NoList
  /\ rd_names = NoList
  /\ pending = [c \in Cams |-> 0]
  /\ stop_called = [c \in Cams |-> FALSE]
  /\ CURRENT_ACTIVE_CAM_WIDGET = 0
  /\ active = [c \in Cams |-> FALSE]
  /\ disp = [c \in Cams |-> <<>>]
  /\ lastSent = [c \in Cams |-> NoCall]
  /\ sentTo = [c \in Cams |-> [d \in Devices |-> NoCall]]
  /\ proto = ProtoStart
  /\ protoLast = ProtoBlank
  /\ dlg = DlgStart
  /\ last = [c \in Cams |-> BlankLast("init")]
  /\ quiet = [c \in Cams |-> FALSE]

\* the last call each device has received from camera c, once calls have
\* been made on the controller now bound (history only)
SentAfter(c, calls) ==
  IF calls = <<>> \/ ptz_controller[c] \notin Devices THEN sentTo[c]
  ELSE [sentTo[c] EXCEPT ![ptz_controller[c]] = calls[Len(calls)]]

\* the calls a handler makes on self.ptz_controller, recorded for camera c
Dispatch(c, calls) ==
  /\ disp' = Assign(disp, c, calls)
  /\ lastSent' = IF calls = <<>> THEN lastSent ELSE Assign(lastSent, c, calls[Len(calls)])
  /\ sentTo' = Assign(sentTo, c, SentAfter(c, calls))

\* ---------------------------------------------------------------------
\* Capture thread (VideoThread): emits change_pixmap_signal, which queues an
\* update_image call on the main thread
Capture(c) ==
  /\ ~stop_called[c]
  /\ pending[c] < MaxPending
  /\ pending' = Assign(pending, c, pending[c] + 1)
  /\ UNCHANGED <<trackVars, ptzVars, procVars, uiVars, stop_called, selVars, protoVars, ghostVars>>

\* ---------------------------------------------------------------------
\* Recognition thread (ImageProcessor): one cycle produces result k, takes
\* the shared lock and stores the three sequences one after the other
RecBegin(c, k) ==
  /\ ~stop_called[c]
  /\ proc_pc[c] = "idle"
  /\ lock = 0
  /\ lock' = c
  /\ proc_new' = Assign(proc_new, c, k)
  /\ proc_pc' = Assign(proc_pc, c, "w_locations")
  /\ UNCHANGED <<trackVars, ptzVars, face_locations, face_names, confidence_list,
                 uiVars, pending, stop_called, selVars, protoVars, ghostVars>>

RecWriteLocations(c) ==
  /\ proc_pc[c] = "w_locations"
  /\ face_locations' = Assign(face_locations, c, proc_new[c])
  /\ proc_pc' = Assign(proc_pc, c, "w_names")
  /\ UNCHANGED <<trackVars, ptzVars, face_names, confidence_list, proc_new, lock,
                 uiVars, pending, stop_called, selVars, protoVars, ghostVars>>

RecWriteNames(c) ==
  /\ proc_pc[c] = "w_names"
  /\ face_names' = Assign(face_names, c, proc_new[c])
  /\ proc_pc' = Assign(proc_pc, c, "w_confidence")
  /\ UNCHANGED <<trackVars, ptzVars, face_locations, confidence_list, proc_new, lock,
                 uiVars, pending, stop_called, selVars, protoVars, ghostVars>>

RecWriteConfidence(c) ==
  /\ proc_pc[c] = "w_confidence"
  /\ confidence_list' = Assign(confidence_list, c, proc_new[c])
  /\ proc_pc' = Assign(proc_pc, c, "idle")
  /\ proc_new' = Assign(proc_new, c, NoList)
  /\ lock' = 0
  /\ UNCHANGED <<trackVars, ptzVars, face_locations, face_names,
                 uiVars, pending, stop_called, selVars, protoVars, ghostVars>>

\* ---------------------------------------------------------------------
\* draw_on_frame from the guard of line 251 on, and track_face: what the
\* handler computes on camera c once its loop has left lp (temp_tracked_name
\* and track_x/y/w/h).  fail names the external call that raises during this
\* run ("none", "tracker" or "actuator"); nothing in the handler catches an
\* exception, so a raise ends update_image on the spot.
TrackOut(c, lp, dims, pos, fail) ==
  LET enter == ShouldTrack(is_tracking[c], lp.x, lp.y, lp.w, lp.h)
      nameraise == enter /\ tracked_name[c] = None      \* self.tracked_name.upper()
      trkraise == enter /\ ~nameraise /\ fail = "tracker"
      ts == TrackerStep(track_started[c], lp.temp, tracked_name[c],
                        <<lp.x, lp.y, lp.w, lp.h>>, pos)
      st == IF ptz_controller[c] # None
              THEN Steer(ts.box, dims, last_request[c])
              ELSE [cmds |-> <<>>, lr |-> last_request[c]]
      actraise == enter /\ ~nameraise /\ fail = "actuator" /\ st.cmds # <<>>
      raise == nameraise \/ trkraise \/ actraise
      ok == enter /\ ~raise
      tracked == ok \/ actraise                         \* the tracker block completed
  IN [x |-> lp.x, y |-> lp.y, w |-> lp.w, h |-> lp.h,
      temp |-> IF raise THEN lp.temp ELSE None,
      started |-> IF tracked THEN TRUE ELSE track_started[c],
      tracker |-> IF tracked THEN ts.tracker ELSE tracker[c],
      lr |-> IF ok THEN st.lr ELSE last_request[c],
      calls |-> IF ok THEN [i \in 1..Len(st.cmds) |-> ActuatorCall(st.cmds[i], ptz_is_usb[c])]
                ELSE <<>>,
      enter |-> enter, raise |-> raise, ok |-> ok,
      failed |-> IF nameraise THEN "attribute" ELSE IF trkraise THEN "tracker"
                 ELSE IF actraise THEN "actuator" ELSE "none",
      seeded |-> ok /\ ts.seeded, reseeded |-> ok /\ ts.reseeded,
      advanced |-> ok /\ ts.advanced,
      box |-> IF ok THEN ts.box ELSE NoBox,
      zone |-> IF enter THEN DeadZone(dims) ELSE NoZone]

\* update_image -> draw_on_frame -> track_face, from the point where the
\* snapshot sequences (kl, kn, kc) have been read (looped = FALSE when the
\* None test of draw_on_frame failed and the loop is skipped); the loop's
\* result is worked out once and handed on
FrameOut(c, looped, kl, kn, kc, dims, pos, fail) ==
  CHOOSE o \in
    {TrackOut(c, lp, dims, pos, fail) :
       lp \in {Loop(z, 1, tracked_name[c],
                    [temp |-> temp_tracked_name[c], x |-> track_x[c], y |-> track_y[c],
                     w |-> track_w[c], h |-> track_h[c]]) :
                 z \in {IF looped THEN Zip(LocationsOf(kl), NamesOf(kn), ConfidenceOf(kc))
                        ELSE <<>>}}} : TRUE

\* the record of a frame handler run kept in last
FrameLast(o, req0, dims) ==
  [BlankLast("frame") EXCEPT
     !.req0 = req0,
     !.entered = o.enter, !.raised = o.raise, !.failed = o.failed,
     !.seeded = o.seeded, !.reseeded = o.reseeded, !.advanced = o.advanced,
     !.box = o.box, !.dims = dims, !.zone = o.zone]

\* the attribute stores and actuator calls of a frame handler run on camera c
FrameStore(c, o, dims) ==
  /\ track_x' = Assign(track_x, c, o.x)
  /\ track_y' = Assign(track_y, c, o.y)
  /\ track_w' = Assign(track_w, c, o.w)
  /\ track_h' = Assign(track_h, c, o.h)
  /\ temp_tracked_name' = Assign(temp_tracked_name, c, o.temp)
  /\ track_started' = Assign(track_started, c, o.started)
  /\ tracker' = Assign(tracker, c, o.tracker)
  /\ last_request' = Assign(last_request, c, o.lr)
  /\ Dispatch(c, o.calls)
  /\ quiet' = IF o.reseeded THEN Assign(quiet, c, FALSE) ELSE quiet
  /\ last' = Assign(last, c, FrameLast(o, last_request[c], dims))
  /\ ui_pc' = "idle"
  /\ ui_cam' = 0
  /\ rd_locs' = NoList
  /\ rd_names' = NoList
  /\ UNCHANGED <<is_tracking, tracked_name, ptzVars, procVars, stop_called, selVars, protoVars>>

\* the handler when no external call fails
FrameBody(c, looped, kl, kn, kc, dims, pos) ==
  \E o \in {FrameOut(c, looped, kl, kn, kc, dims, pos, "none")} : FrameStore(c, o, dims)

\* the handler starting only once the shared lock is free
FrameChkLocationsLocked(c, dims, pos) ==
  /\ lock = 0
  /\ ui_pc = "idle"
  /\ pending[c] > 0
  /\ pending' = Assign(pending, c, pending[c] - 1)
  /\ IF face_locations[c] = NoList
       THEN FrameBody(c, FALSE, NoList, NoList, NoList, dims, pos)
       ELSE /\ ui_pc' = "chk_names"
            /\ ui_cam' = c
            /\ UNCHANGED <<trackVars, ptzVars, procVars, rd_locs, rd_names,
                           stop_called, selVars, protoVars, ghostVars>>

\* line 235, first conjunct: self.processor_thread.face_locations is not None
FrameChkLocations(c, dims, pos) ==
  /\ ui_pc = "idle"
  /\ pending[c] > 0
  /\ pending' = Assign(pending, c, pending[c] - 1)
  /\ IF face_locations[c] = NoList
       THEN FrameBody(c, FALSE, NoList, NoList, NoList, dims, pos)
       ELSE /\ ui_pc' = "chk_names"
            /\ ui_cam' = c
            /\ UNCHANGED <<trackVars, ptzVars, procVars, rd_locs, rd_names,
                           stop_called, selVars, protoVars, ghostVars>>

\* line 235, second conjunct
FrameChkNames(c, dims, pos) ==
  /\ ui_pc = "chk_names" /\ ui_cam = c
  /\ UNCHANGED pending
  /\ IF face_names[c] = NoList
       THEN FrameBody(c, FALSE, NoList, NoList, NoList, dims, pos)
       ELSE /\ ui_pc' = "chk_confidence"
            /\ UNCHANGED <<trackVars, ptzVars, procVars, ui_cam, rd_locs, rd_names,
                           stop_called, selVars, protoVars, ghostVars>>

\* line 235, third conjunct
FrameChkConfidence(c, dims, pos) ==
  /\ ui_pc = "chk_confidence" /\ ui_cam = c
  /\ UNCHANGED pending
  /\ IF confidence_list[c] = NoList
       THEN FrameBody(c, FALSE, NoList, NoList, NoList, dims, pos)
       ELSE /\ ui_pc' = "zip_locations"
            /\ UNCHANGED <<trackVars, ptzVars, procVars, ui_cam, rd_locs, rd_names,
                           stop_called, selVars, protoVars, ghostVars>>

\* line 236: first argument of zip
FrameZipLocations(c) ==
  /\ ui_pc = "zip_locations" /\ ui_cam = c
  /\ rd_locs' = face_locations[c]
  /\ ui_pc' = "zip_names"
  /\ UNCHANGED <<trackVars, ptzVars, procVars, ui_cam, rd_names, pending,
                 stop_called, selVars, protoVars, ghostVars>>

\* line 237: second argument of zip
FrameZipNames(c) ==
  /\ ui_pc = "zip_names" /\ ui_cam = c
  /\ rd_names' = face_names[c]
  /\ ui_pc' = "zip_confidence"
  /\ UNCHANGED <<trackVars, ptzVars, procVars, ui_cam, rd_locs, pending,
                 stop_called, selVars, protoVars, ghostVars>>

\* line 238: third argument of zip, then the rest of the handler
FrameZipConfidence(c, dims, pos) ==
  /\ ui_pc = "zip_confidence" /\ ui_cam = c
  /\ UNCHANGED pending
  /\ FrameBody(c, TRUE, rd_locs, rd_names, confidence_list[c], dims, pos)

\* ---------------------------------------------------------------------
\* Handlers called by the UI on the main thread
MainIdle(c) == ui_pc = "idle" /\ ~stop_called[c]

\* the stop sent on the USB binding only
StopCallsUsbOnly(c) ==
  IF ptz_controller[c] # None /\ Truthy(ptz_is_usb[c])
    THEN <<ActuatorCall("stop", ptz_is_usb[c])>> ELSE <<>>

\* the stop sent without testing for an actuator
StopCallsUnguarded(c) ==
  <<ActuatorCall("stop", ptz_is_usb[c])>>

\* the stop sent by stop() and set_tracking()
StopCalls(c) ==
  IF ptz_controller[c] # None THEN <<ActuatorCall("stop", ptz_is_usb[c])>> ELSE <<>>

\* the stop sent by set_ptz(None, ...) before the controller is dropped
UnbindCalls(c, control) ==
  IF control = None /\ ptz_controller[c] # None
    THEN IF Truthy(ptz_is_usb[c])
           THEN <<ActuatorCall("stop", "True")>>
           ELSE <<[api |-> "visca", method |-> "pantilt", pan |-> 0, tilt |-> 0]>>
    ELSE <<>>

stop(c) ==
  /\ MainIdle(c)
  /\ Dispatch(c, StopCalls(c))
  /\ stop_called' = Assign(stop_called, c, TRUE)
  /\ last' = Assign(last, c, BlankLast("stop"))
  /\ UNCHANGED <<trackVars, ptzVars, procVars, uiVars, pending, selVars, protoVars, quiet>>

\* whether the stop of set_ptz(None, ...) raises.  On the non-USB binding it
\* is self.ptz_controller.pantilt(...), a method of the controller object,
\* while every other non-USB call in the class goes through
\* ndi.recv_ptz_pan_tilt_speed(instance=self.ptz_controller, ...) and
\* __init__ binds the NDI receiver itself: whether that object has a pantilt
\* method is not decided by this class, so both outcomes are kept
UnbindRaises(c, control) ==
  IF control = None /\ ptz_controller[c] # None /\ ~Truthy(ptz_is_usb[c])
    THEN {FALSE, TRUE} ELSE {FALSE}

set_ptz(c, control, isUSB) ==
  /\ MainIdle(c)
  /\ \E raised \in UnbindRaises(c, control) :
       /\ Dispatch(c, IF raised THEN <<>> ELSE UnbindCalls(c, control))
       /\ ptz_controller' = IF raised THEN ptz_controller
                             ELSE Assign(ptz_controller, c, control)
       /\ ptz_is_usb' = IF raised THEN ptz_is_usb ELSE Assign(ptz_is_usb, c, isUSB)
       /\ last' = Assign(last, c, [BlankLast("set_ptz") EXCEPT
                                     !.raised = raised, !.arg = control])
  /\ UNCHANGED <<trackVars, procVars, uiVars, pending, stop_called, selVars, protoVars, quiet>>

set_tracking(c) ==
  /\ MainIdle(c)
  /\ track_x' = Assign(track_x, c, NoneI)
  /\ track_y' = Assign(track_y, c, NoneI)
  /\ track_w' = Assign(track_w, c, NoneI)
  /\ track_h' = Assign(track_h, c, NoneI)
  /\ is_tracking' = Assign(is_tracking, c, ~is_tracking[c])
  /\ Dispatch(c, StopCalls(c))
  /\ last_request' = IF ptz_controller[c] # None
                       THEN Assign(last_request, c, None) ELSE last_request
  /\ quiet' = IF is_tracking[c] THEN Assign(quiet, c, TRUE) ELSE quiet
  /\ last' = Assign(last, c, BlankLast("set_tracking"))
  /\ UNCHANGED <<tracked_name, track_started, temp_tracked_name, tracker, ptzVars,
                 procVars, uiVars, pending, stop_called, selVars, protoVars>>

set_tracked_name(c, name) ==
  /\ MainIdle(c)
  /\ track_started' = Assign(track_started, c, FALSE)
  /\ tracked_name' = Assign(tracked_name, c, name)
  /\ disp' = Assign(disp, c, <<>>)
  /\ last' = Assign(last, c, BlankLast("set_tracked_name"))
  /\ UNCHANGED <<is_tracking, temp_tracked_name, track_x, track_y, track_w, track_h,
                 last_request, tracker, ptzVars, procVars, uiVars, pending,
                 stop_called, selVars, protoVars, lastSent, sentTo, quiet>>

\* a click that selects the widget without deactivating the previous one
clicked_widgetKeep(c) ==
  /\ MainIdle(c)
  /\ LET cur == CURRENT_ACTIVE_CAM_WIDGET
     IN IF cur = c
          THEN /\ CURRENT_ACTIVE_CAM_WIDGET' = 0
               /\ active' = Assign(active, c, ~active[c])
          ELSE /\ CURRENT_ACTIVE_CAM_WIDGET' = c
               /\ active' = Assign(active, c, ~active[c])
  /\ UNCHANGED <<trackVars, ptzVars, procVars, uiVars, pending, stop_called,
                 ghostVars, protoVars>>

clicked_widget(c) ==
  /\ MainIdle(c)
  /\ LET cur == CURRENT_ACTIVE_CAM_WIDGET
         a1 == IF cur # 0 THEN Assign(active, cur, ~active[cur]) ELSE active
     IN IF cur = c
          THEN /\ CURRENT_ACTIVE_CAM_WIDGET' = 0
               /\ active' = a1
          ELSE /\ CURRENT_ACTIVE_CAM_WIDGET' = c
               /\ active' = Assign(a1, c, ~a1[c])
  /\ UNCHANGED <<trackVars, ptzVars, procVars, uiVars, pending, stop_called,
                 ghostVars, protoVars>>

\* ---------------------------------------------------------------------
\* update_image as one step of the main thread: the three snapshot
\* sequences are read as they are at that moment (a recognition cycle that
\* has stored only some of them is observed half-done)
update_image(c, dims, pos) ==
  /\ ui_pc = "idle"
  /\ pending[c] > 0
  /\ pending' = Assign(pending, c, pending[c] - 1)
  /\ FrameBody(c, face_locations[c] # NoList /\ face_names[c] # NoList
                    /\ confidence_list[c] # NoList,
               face_locations[c], face_names[c], confidence_list[c], dims, pos)

\* update_image during which the external call named by fail raises: the
\* tracker (start_track / update) or the actuator method
update_image_raising(c, dims, pos, fail) ==
  /\ ui_pc = "idle"
  /\ pending[c] > 0
  /\ pending' = Assign(pending, c, pending[c] - 1)
  /\ \E o \in {FrameOut(c, face_locations[c] # NoList /\ face_names[c] # NoList
                             /\ confidence_list[c] # NoList,
                        face_locations[c], face_names[c], confidence_list[c],
                        dims, pos, fail)} :
       o.failed = fail /\ FrameStore(c, o, dims)

\* ---------------------------------------------------------------------
\* the capture and recognition threads of camera c
Threads(c, snaps) ==
  \/ Capture(c)
  \/ \E k \in snaps : RecBegin(c, k)
  \/ RecWriteLocations(c)
  \/ RecWriteNames(c)
  \/ RecWriteConfidence(c)

\* the handlers the UI calls on camera c
UiOps(c, names, ptzargs) ==
  \/ \E a \in ptzargs : set_ptz(c, a[1], a[2])
  \/ set_tracking(c)
  \/ \E n \in names \cup {None} : set_tracked_name(c, n)

\* the frame handler, as one step
FrameAtomic(c, preds) ==
  \E dims \in FrameDims, pos \in preds : update_image(c, dims, pos)

\* the frame handler, one read of the shared snapshot per step
FrameSplit(c, preds) ==
  \/ \E dims \in FrameDims, pos \in preds : FrameChkLocations(c, dims, pos)
  \/ \E dims \in FrameDims, pos \in preds : FrameChkNames(c, dims, pos)
  \/ \E dims \in FrameDims, pos \in preds : FrameChkConfidence(c, dims, pos)
  \/ FrameZipLocations(c)
  \/ FrameZipNames(c)
  \/ \E dims \in FrameDims, pos \in preds : FrameZipConfidence(c, dims, pos)

\* one camera widget in use
Next ==
  \/ Threads(1, SnapIds)
  \/ UiOps(1, Names, PtzArgs)
  \/ FrameAtomic(1, PredBoxes)

Spec == Init /\ [][Next]_vars

\* one camera widget that is eventually removed from the UI
NextStop ==
  \/ Threads(1, SnapIds)
  \/ UiOps(1, SmallNames, BothPtzArgs)
  \/ FrameAtomic(1, PredBoxes)
  \/ stop(1)

SpecStop == Init /\ [][NextStop]_vars

\* one camera widget, the frame handler interleaved with the recognition
\* thread read by read
NextRace ==
  \/ Threads(1, SnapIds)
  \/ UiOps(1, SmallNames, SmallPtzArgs)
  \/ FrameSplit(1, SmallPredBoxes)

SpecRace == Init /\ [][NextRace]_vars

\* the same on one recognition result, with the main thread's event loop
\* running the frame handler whenever it can; nothing is assumed of the
\* other threads
NextRaceLive ==
  \/ Threads(1, SmallSnapIds)
  \/ UiOps(1, SmallNames, SmallPtzArgs)
  \/ FrameSplit(1, SmallPredBoxes)

SpecRaceLive ==
  Init /\ [][NextRaceLive]_vars /\ WF_vars(FrameSplit(1, SmallPredBoxes))

\* two camera widgets side by side.  Camera 1 has been configured (USB
\* actuator bound, "a" chosen) and its recognizer has published its first
\* result; it keeps receiving frames and has its tracking toggled.  Camera 2
\* is fresh and goes through every operation.
InitIso ==
  /\ is_tracking = [c \in Cams |-> FALSE]
  /\ tracked_name = [c \in Cams |-> IF c = 1 THEN "a" ELSE None]
  /\ track_started = [c \in Cams |-> FALSE]
  /\ temp_tracked_name = [c \in Cams |-> None]
  /\ track_x = [c \in Cams |-> NoneI]
  /\ track_y = [c \in Cams |-> NoneI]
  /\ track_w = [c \in Cams |-> NoneI]
  /\ track_h = [c \in Cams |-> NoneI]
  /\ last_request = [c \in Cams |-> None]
  /\ ptz_controller = [c \in Cams |-> IF c = 1 THEN "usb_cam" ELSE None]
  /\ ptz_is_usb = [c \in Cams |-> IF c = 1 THEN "True" ELSE None]
  /\ tracker = [c \in Cams |-> NoBox]
  /\ face_locations = [c \in Cams |-> IF c = 1 THEN 1 ELSE NoList]
  /\ face_names = [c \in Cams |-> IF c = 1 THEN 1 ELSE NoList]
  /\ confidence_list = [c \in Cams |-> IF c = 1 THEN 1 ELSE NoList]
  /\ proc_pc = [c \in Cams |-> "idle"]
  /\ proc_new = [c \in Cams |-> NoList]
  /\ lock = 0
  /\ ui_pc = "idle"
  /\ ui_cam = 0
  /\ rd_locs = NoList
  /\ rd_names = NoList
  /\ pending = [c \in Cams |-> 0]
  /\ stop_called = [c \in Cams |-> FALSE]
  /\ CURRENT_ACTIVE_CAM_WIDGET = 0
  /\ active = [c \in Cams |-> FALSE]
  /\ disp = [c \in Cams |-> <<>>]
  /\ lastSent = [c \in Cams |-> NoCall]
  /\ sentTo = [c \in Cams |-> [d \in Devices |-> NoCall]]
  /\ proto = ProtoStart
  /\ protoLast = ProtoBlank
  /\ dlg = DlgStart
  /\ last = [c \in Cams |-> IF c = 1 THEN BlankLast("set_tracked_name") ELSE BlankLast("init")]
  /\ quiet = [c \in Cams |-> FALSE]

IsoOps(c) ==
  \/ c = 1 /\ Capture(1)
  \/ c = 1 /\ FrameAtomic(1, SmallPredBoxes)
  \/ c = 1 /\ set_tracking(1)
  \/ c = 2 /\ Threads(2, SmallSnapIds)
  \/ c = 2 /\ UiOps(2, SmallNames, SmallPtzArgs)
  \/ c = 2 /\ FrameAtomic(2, SmallPredBoxes)
  \/ clicked_widget(c)

NextIso == \E c \in Cams : IsoOps(c)

SpecIso == InitIso /\ [][NextIso]_vars

\* ---------------------------------------------------------------------
\* Two camera widgets, 1 on the USB binding and 2 on the NDI binding, given
\* the same capture, recognition result, toggle, identity and frame at each
\* step: each action is the handler of that name run on both widgets.
Assign2(f, v1, v2) == Assign(Assign(f, 1, v1), 2, v2)

InitPair ==
  /\ is_tracking = [c \in Cams |-> FALSE]
  /\ tracked_name = [c \in Cams |-> None]
  /\ track_started = [c \in Cams |-> FALSE]
  /\ temp_tracked_name = [c \in Cams |-> None]
  /\ track_x = [c \in Cams |-> NoneI]
  /\ track_y = [c \in Cams |-> NoneI]
  /\ track_w = [c \in Cams |-> NoneI]
  /\ track_h = [c \in Cams |-> NoneI]
  /\ last_request = [c \in Cams |-> None]
  /\ ptz_controller = [c \in Cams |-> IF c = 1 THEN "usb_cam" ELSE "ndi_cam"]
  /\ ptz_is_usb = [c \in Cams |-> IF c = 1 THEN "True" ELSE "False"]
  /\ tracker = [c \in Cams |-> NoBox]
  /\ face_locations = [c \in Cams |-> NoList]
  /\ face_names = [c \in Cams |-> NoList]
  /\ confidence_list = [c \in Cams |-> NoList]
  /\ proc_pc = [c \in Cams |-> "idle"]
  /\ proc_new = [c \in Cams |-> NoList]
  /\ lock = 0
  /\ ui_pc = "idle"
  /\ ui_cam = 0
  /\ rd_locs = NoList
  /\ rd_names = NoList
  /\ pending = [c \in Cams |-> 0]
  /\ stop_called = [c \in Cams |-> FALSE]
  /\ CURRENT_ACTIVE_CAM_WIDGET = 0
  /\ active = [c \in Cams |-> FALSE]
  /\ disp = [c \in Cams |-> <<>>]
  /\ lastSent = [c \in Cams |-> NoCall]
  /\ sentTo = [c \in Cams |-> [d \in Devices |-> NoCall]]
  /\ proto = ProtoStart
  /\ protoLast = ProtoBlank
  /\ dlg = DlgStart
  /\ last = [c \in Cams |-> BlankLast("set_ptz")]
  /\ quiet = [c \in Cams |-> FALSE]

\* both capture threads emit a frame
PairCapture ==
  /\ pending[1] < MaxPending /\ pending[2] < MaxPending
  /\ pending' = Assign2(pending, pending[1] + 1, pending[2] + 1)
  /\ UNCHANGED <<trackVars, ptzVars, procVars, uiVars, stop_called, selVars, protoVars, ghostVars>>

\* both recognition threads publish result k
PairPublish(k) ==
  /\ face_locations' = Assign2(face_locations, k, k)
  /\ face_names' = Assign2(face_names, k, k)
  /\ confidence_list' = Assign2(confidence_list, k, k)
  /\ UNCHANGED <<trackVars, ptzVars, proc_pc, proc_new, lock, uiVars, pending,
                 stop_called, selVars, protoVars, ghostVars>>

\* set_tracking() on both widgets
PairSetTracking ==
  /\ MainIdle(1) /\ MainIdle(2)
  /\ track_x' = Assign2(track_x, NoneI, NoneI)
  /\ track_y' = Assign2(track_y, NoneI, NoneI)
  /\ track_w' = Assign2(track_w, NoneI, NoneI)
  /\ track_h' = Assign2(track_h, NoneI, NoneI)
  /\ is_tracking' = Assign2(is_tracking, ~is_tracking[1], ~is_tracking[2])
  /\ disp' = Assign2(disp, StopCalls(1), StopCalls(2))
  /\ lastSent' = Assign2(lastSent,
                         IF StopCalls(1) = <<>> THEN lastSent[1] ELSE StopCalls(1)[1],
                         IF StopCalls(2) = <<>> THEN lastSent[2] ELSE StopCalls(2)[1])
  /\ sentTo' = Assign2(sentTo, SentAfter(1, StopCalls(1)), SentAfter(2, StopCalls(2)))
  /\ last_request' = Assign2(last_request,
                             IF ptz_controller[1] # None THEN None ELSE last_request[1],
                             IF ptz_controller[2] # None THEN None ELSE last_request[2])
  /\ quiet' = Assign2(quiet, is_tracking[1] \/ quiet[1], is_tracking[2] \/ quiet[2])
  /\ last' = Assign2(last, BlankLast("set_tracking"), BlankLast("set_tracking"))
  /\ UNCHANGED <<tracked_name, track_started, temp_tracked_name, tracker, ptzVars,
                 procVars, uiVars, pending, stop_called, selVars, protoVars>>

\* set_tracked_name(name) on both widgets
PairSetTrackedName(name) ==
  /\ MainIdle(1) /\ MainIdle(2)
  /\ track_started' = Assign2(track_started, FALSE, FALSE)
  /\ tracked_name' = Assign2(tracked_name, name, name)
  /\ disp' = Assign2(disp, <<>>, <<>>)
  /\ last' = Assign2(last, BlankLast("set_tracked_name"), BlankLast("set_tracked_name"))
  /\ UNCHANGED <<is_tracking, temp_tracked_name, track_x, track_y, track_w, track_h,
                 last_request, tracker, ptzVars, procVars, uiVars, pending,
                 stop_called, selVars, protoVars, lastSent, sentTo, quiet>>

\* update_image on both widgets, on frames of the same size with the same
\* tracker report
PairUpdateImage(dims, pos) ==
  /\ ui_pc = "idle"
  /\ pending[1] > 0 /\ pending[2] > 0
  /\ pending' = Assign2(pending, pending[1] - 1, pending[2] - 1)
  /\ \E o1 \in {FrameOut(1, face_locations[1] # NoList /\ face_names[1] # NoList
                              /\ confidence_list[1] # NoList,
                         face_locations[1], face_names[1], confidence_list[1],
                         dims, pos, "none")},
        o2 \in {FrameOut(2, face_locations[2] # NoList /\ face_names[2] # NoList
                              /\ confidence_list[2] # NoList,
                         face_locations[2], face_names[2], confidence_list[2],
                         dims, pos, "none")} :
       /\ track_x' = Assign2(track_x, o1.x, o2.x)
       /\ track_y' = Assign2(track_y, o1.y, o2.y)
       /\ track_w' = Assign2(track_w, o1.w, o2.w)
       /\ track_h' = Assign2(track_h, o1.h, o2.h)
       /\ temp_tracked_name' = Assign2(temp_tracked_name, o1.temp, o2.temp)
       /\ track_started' = Assign2(track_started, o1.started, o2.started)
       /\ tracker' = Assign2(tracker, o1.tracker, o2.tracker)
       /\ last_request' = Assign2(last_request, o1.lr, o2.lr)
       /\ disp' = Assign2(disp, o1.calls, o2.calls)
       /\ lastSent' = Assign2(lastSent,
                              IF o1.calls = <<>> THEN lastSent[1] ELSE o1.calls[Len(o1.calls)],
                              IF o2.calls = <<>> THEN lastSent[2] ELSE o2.calls[Len(o2.calls)])
       /\ sentTo' = Assign2(sentTo, SentAfter(1, o1.calls), SentAfter(2, o2.calls))
       /\ quiet' = Assign2(quiet, quiet[1] /\ ~o1.reseeded, quiet[2] /\ ~o2.reseeded)
       /\ last' = Assign2(last, FrameLast(o1, last_request[1], dims),
                                FrameLast(o2, last_request[2], dims))
  /\ UNCHANGED <<is_tracking, tracked_name, ptzVars, procVars, uiVars, stop_called, selVars, protoVars>>

NextPair ==
  \/ PairCapture
  \/ \E k \in SnapIds : PairPublish(k)
  \/ PairSetTracking
  \/ \E n \in Names \cup {None} : PairSetTrackedName(n)
  \/ \E dims \in FrameDims, pos \in PredBoxes : PairUpdateImage(dims, pos)

SpecPair == InitPair /\ [][NextPair]_vars

\* one camera widget bound to, unbound from and moved between the two devices
NextBind ==
  \/ Threads(1, SmallSnapIds)
  \/ UiOps(1, SmallNames, AllPtzArgs)
  \/ FrameAtomic(1, SmallPredBoxes)

SpecBind == Init /\ [][NextBind]_vars

\* one camera widget whose recognizer reports the same label twice
NextDup ==
  \/ Threads(1, DupSnapIds)
  \/ UiOps(1, Names, SmallPtzArgs)
  \/ FrameAtomic(1, SmallPredBoxes)

SpecDup == Init /\ [][NextDup]_vars

\* the frame handler with a tracker or actuator call that raises
FrameRaising(c, preds) ==
  \E dims \in FrameDims, pos \in preds, fail \in Failures :
    update_image_raising(c, dims, pos, fail)

\* one camera widget whose tracker and actuator calls can fail
NextFail ==
  \/ Threads(1, SmallSnapIds)
  \/ UiOps(1, SmallNames, SmallPtzArgs)
  \/ FrameAtomic(1, SmallPredBoxes)
  \/ FrameRaising(1, SmallPredBoxes)

SpecFail == Init /\ [][NextFail]_vars

\* one configured camera widget receiving frames of every size
NextZone ==
  \/ Threads(1, SmallSnapIds)
  \/ UiOps(1, Names, PtzArgs)
  \/ \E dims \in ZoneDims, pos \in EdgePredBoxes : update_image(1, dims, pos)

SpecZone == InitIso /\ [][NextZone]_vars

\* ---------------------------------------------------------------------
\* the prototype loop face_object_track (dlib_tracker_test): its globals
\* are the record proto, protoLast records what the last iteration did

\* detections (x_face, y_face, w_face, h_face) of the cascade detector
ProtoFaces ==
  {<<100, 50, 100, 100>>, <<300, 200, 50, 50>>, <<10, 10, 100, 100>>, <<200, 100, 150, 150>>,
   <<400, 300, 60, 60>>}

\* the detections of one frame, in the detector's order
ProtoFaceSeqs == UNION {[1..n -> ProtoFaces] : n \in 0..MaxFaces}

\* positions the correlation tracker reports after update()
ProtoPositions == {<<90, 45, 230, 190>>, <<250, 170, 400, 310>>, <<15, 15, 125, 135>>}

\* mouse positions of a left-button click
ProtoClicks == {<<150, 100>>, <<320, 220>>, <<5, 5>>}

\* dlib.rectangle(int(x * 0.8), int(y * 0.8), int(w * 1.2), int(h * 1.3))
ProtoRect(x, y, w, h) ==
  <<(8 * x) \div 10, (8 * y) \div 10, (12 * w) \div 10, (13 * h) \div 10>>

\* "track_started is True & enable_motion is True": & binds tighter than is,
\* so this is the chain  track_started is (True & enable_motion) is True
ProtoActive(ts, em) == (ts = (TRUE /\ em)) /\ ((TRUE /\ em) = TRUE)

\* lines 80-91: the tracker is created and seeded from the stored box when
\* motion has just been enabled, and dropped when motion is off
ProtoArm(p) ==
  IF p.enable_motion
    THEN IF ~p.track_started
           THEN [p EXCEPT !.track_started = TRUE,
                          !.tracker = ProtoRect(p.x, p.y, p.w, p.h)]
           ELSE p
    ELSE [p EXCEPT !.tracker = NoBox, !.track_started = FALSE, !.enable_motion = FALSE]

\* the body of the for loop for one detection (lines 94-112)
ProtoFace(p, f) ==
  LET q == [p EXCEPT !.x = f[1], !.w = f[1] + f[3], !.y = f[2], !.h = f[2] + f[4]]
  IN IF ProtoActive(q.track_started, q.enable_motion)
       THEN [q EXCEPT !.tracker = ProtoRect(q.x, q.y, q.w, q.h)]
       ELSE q

\* the for loop over the detections of the frame
RECURSIVE ProtoFor(_, _)
ProtoFor(p, faces) ==
  IF faces = <<>> THEN p ELSE ProtoFor(ProtoFace(p, Head(faces)), Tail(faces))

\* the else clause of the for loop (lines 118-126): the loop has no break, so
\* the clause runs after every loop, with or without detections
ProtoElse(p, faces, pos) ==
  IF ProtoActive(p.track_started, p.enable_motion)
    THEN [p EXCEPT !.tracker = pos] ELSE p

\* click(): a left-button press inside the stored box toggles enable_motion;
\* before the first detection x is None and the comparison raises
ProtoClick(at) ==
  /\ proto.x # NoneI
  /\ at[1] > proto.x /\ at[2] > proto.y
  /\ at[1] < proto.x + proto.w /\ at[2] < proto.y + proto.h
  /\ proto' = [proto EXCEPT !.enable_motion = ~proto.enable_motion]
  /\ UNCHANGED <<trackVars, ptzVars, procVars, uiVars, pending, stop_called,
                 selVars, ghostVars, protoLast, dlg>>

\* one iteration of the while loop (lines 72-131)
ProtoIteration(faces, pos) ==
  /\ LET a == ProtoArm(proto)
         f == ProtoFor(a, faces)
         act == ProtoActive(a.track_started, a.enable_motion)
     IN /\ proto' = ProtoElse(f, faces, pos)
        /\ protoLast' = [faces |-> Len(faces),
                         active |-> act,
                         reseeded |-> act /\ faces # <<>>,
                         advanced |-> proto'.tracker = pos /\ act,
                         nullcall |-> act /\ a.tracker = NoBox,
                         rect |-> IF act /\ faces # <<>> THEN f.tracker
                                  ELSE IF a.track_started /\ ~proto.track_started
                                         THEN a.tracker ELSE NoBox]
  /\ UNCHANGED <<trackVars, ptzVars, procVars, uiVars, pending, stop_called,
                 selVars, ghostVars, dlg>>

NextProto ==
  \/ \E at \in ProtoClicks : ProtoClick(at)
  \/ \E faces \in ProtoFaceSeqs, pos \in ProtoPositions : ProtoIteration(faces, pos)

SpecProto == Init /\ [][NextProto]_vars

\* ---------------------------------------------------------------------
\* the remove-face dialog (dialogs/remove_face.py): dlg.pc is the position
\* of the UI thread inside remove_face_prompt, dlg.worker the state of
\* trainer_thread

\* RemoveFaceDlg(): the dialog is built and lists the folders
DlgOpen ==
  /\ dlg.window = "closed"
  /\ dlg' = [dlg EXCEPT !.window = "open", !.pc = "idle", !.trained_by = "none",
                         !.target = "None", !.worker = "none", !.called = FALSE]
  /\ UNCHANGED <<trackVars, ptzVars, procVars, uiVars, pending, stop_called,
                 selVars, ghostVars, proto, protoLast>>

\* cancel_btn.clicked is connected to window.close
DlgCancel ==
  /\ dlg.window = "open" /\ dlg.pc = "idle"
  /\ dlg' = [dlg EXCEPT !.window = "closed"]
  /\ UNCHANGED <<trackVars, ptzVars, procVars, uiVars, pending, stop_called,
                 selVars, ghostVars, proto, protoLast>>

\* lines 61-63: the selected folder is deleted and the message box shown
DlgRemove(face) ==
  /\ dlg.window = "open" /\ dlg.pc = "idle" /\ face \in dlg.dirs
  /\ dlg' = [dlg EXCEPT !.dirs = dlg.dirs \ {face}, !.pc = "removed"]
  /\ UNCHANGED <<trackVars, ptzVars, procVars, uiVars, pending, stop_called,
                 selVars, ghostVars, proto, protoLast>>

\* lines 64-65: in Thread(target=Trainer().train_face(True)) the argument is
\* a call, evaluated by the thread executing line 64 before Thread() is
\* entered: the retraining runs here, and its return value becomes the
\* target of the new daemon thread
DlgCreate(ret) ==
  /\ dlg.pc = "removed"
  /\ dlg' = [dlg EXCEPT !.model = dlg.dirs, !.trained_by = "ui", !.target = ret,
                         !.worker = "new", !.pc = "created"]
  /\ UNCHANGED <<trackVars, ptzVars, procVars, uiVars, pending, stop_called,
                 selVars, ghostVars, proto, protoLast>>

\* line 66: trainer_thread.start()
DlgThreadStart ==
  /\ dlg.pc = "created"
  /\ dlg' = [dlg EXCEPT !.worker = "running", !.pc = "started"]
  /\ UNCHANGED <<trackVars, ptzVars, procVars, uiVars, pending, stop_called,
                 selVars, ghostVars, proto, protoLast>>

\* Thread.run of trainer_thread: calls the target unless it is None
DlgWorkerRun ==
  /\ dlg.worker = "running"
  /\ dlg' = [dlg EXCEPT !.worker = "done", !.called = (dlg.target # "None")]
  /\ UNCHANGED <<trackVars, ptzVars, procVars, uiVars, pending, stop_called,
                 selVars, ghostVars, proto, protoLast>>

\* lines 67-68: trainer_thread.join() returns once the thread has ended,
\* then the window is closed
DlgJoinClose ==
  /\ dlg.pc = "started" /\ dlg.worker = "done"
  /\ dlg' = [dlg EXCEPT !.pc = "idle", !.window = "closed"]
  /\ UNCHANGED <<trackVars, ptzVars, procVars, uiVars, pending, stop_called,
                 selVars, ghostVars, proto, protoLast>>

NextDlg ==
  \/ DlgOpen
  \/ DlgCancel
  \/ \E face \in FaceDirs : DlgRemove(face)
  \/ \E ret \in TrainReturns : DlgCreate(ret)
  \/ DlgThreadStart
  \/ DlgWorkerRun
  \/ DlgJoinClose

SpecDlg == Init /\ [][NextDlg]_vars

\* =====================================================================
\* Vocabulary of the properties

\* the PTZCommand an actuator call stands for
CmdOfCall(call) ==
  IF call.api = "usb"
    THEN CHOOSE cmd \in {"stop", "up_left", "up_right", "down_left", "down_right",
                         "up", "down", "left", "right"} : UsbMethod(cmd) = call.method
    ELSE IF call.pan = 0 /\ call.tilt = 0 THEN "stop"
    ELSE CHOOSE cmd \in {"up_left", "up_right", "down_left", "down_right",
                         "up", "down", "left", "right"} :
           NdiSpeed(cmd) = <<call.pan, call.tilt>>

CmdsOf(calls) == [i \in 1..Len(calls) |-> CmdOfCall(calls[i])]

SingleAxis == {"up", "down", "left", "right"}

\* the ordered list of section 4.4, first match wins, on the bounds that
\* track_face computes
SpecCmd(b, dims) ==
  LET dz == DeadZone(dims)
      x == b[1]
      y == b[2]
      w == b[3]
      h == b[4]
  IN CASE x > dz.min_x /\ w < dz.max_x /\ y > dz.min_y /\ h < dz.max_y -> "stop"
       [] y < dz.min_y /\ x < dz.min_x -> "up_left"
       [] y < dz.min_y /\ w > dz.max_x -> "up_right"
       [] h > dz.max_y /\ x < dz.min_x -> "down_left"
       [] h > dz.max_y /\ w > dz.max_x -> "down_right"
       [] y < dz.min_y -> "up"
       [] h > dz.max_y -> "down"
       [] x < dz.min_x -> "left"
       [] w > dz.max_x -> "right"
       [] OTHER -> None

\* a vertical and a horizontal out-of-zone condition hold together
Diagonal(b, dims) ==
  LET dz == DeadZone(dims)
  IN (b[2] < dz.min_y \/ b[4] > dz.max_y) /\ (b[1] < dz.min_x \/ b[3] > dz.max_x)

\* the last handler run on the camera was a frame update that got through track_face
Steered(r) == r.op = "frame" /\ r.entered /\ ~r.raised

\* this step completes an update_image call of camera c
FrameDone(c) ==
  ui_pc' = "idle" /\ ((ui_pc # "idle" /\ ui_cam = c) \/ pending'[c] < pending[c])

\* the snapshot as camera c's frame handler finds it when it runs in one step
Seen(c) ==
  IF face_locations[c] # NoList /\ face_names[c] # NoList /\ confidence_list[c] # NoList
    THEN Zip(LocationsOf(face_locations[c]), NamesOf(face_names[c]),
             ConfidenceOf(confidence_list[c]))
    ELSE <<>>

\* boxes <<left, top, right, bottom>> of the entries of z labelled name
MatchBoxes(z, name) ==
  {<<z[i].loc[4], z[i].loc[1], z[i].loc[2], z[i].loc[3]>> : i \in {j \in DOMAIN z : z[j].name = name}}

\* this step is a handler run on camera c that may call the actuator
HandlerStep(c) ==
  \/ FrameDone(c)
  \/ is_tracking'[c] # is_tracking[c]
  \/ ptz_controller'[c] # ptz_controller[c]
  \/ stop_called'[c] # stop_called[c]

\* =====================================================================
\* C1  Debounce idempotence: when two consecutive frame updates of a camera
\* with an actuator bound steer on boxes that classify to the same command,
\* the second one dispatches nothing (and the first at most the one command).
DebounceIdempotent ==
  [][\A c \in Cams :
       (/\ FrameDone(c)
        /\ Steered(last[c]) /\ Steered(last'[c])
        /\ ptz_controller[c] # None
        /\ SpecCmd(last[c].box, last[c].dims) # None
        /\ SpecCmd(last[c].box, last[c].dims) = SpecCmd(last'[c].box, last'[c].dims))
       => (disp'[c] = <<>> /\ Len(disp[c]) <= 1)]_vars

\* C2  Diagonal precedence: a frame update that steers on a box lying out of
\* the dead zone both vertically and horizontally neither dispatches a
\* single-axis command nor leaves one in last_request.
DiagonalPrecedence ==
  \A c \in Cams :
    (Steered(last[c]) /\ ptz_controller[c] # None /\ Diagonal(last[c].box, last[c].dims))
    => (/\ last_request[c] \notin SingleAxis
        /\ \A i \in DOMAIN disp[c] : CmdOfCall(disp[c][i]) \notin SingleAxis)

\* C3  Reseed priority: a frame update made with tracking enabled on a
\* snapshot holding a detection labelled tracked_name reinitialises the
\* tracker with the box of such a detection and steers on that box, whatever
\* the tracker held or would have predicted.
ReseedPriority ==
  [][\A c \in Cams :
       (FrameDone(c) /\ is_tracking[c] /\ MatchBoxes(Seen(c), tracked_name[c]) # {})
       => (/\ Steered(last'[c])
           /\ last'[c].reseeded /\ ~last'[c].advanced
           /\ last'[c].box \in MatchBoxes(Seen(c), tracked_name[c])
           /\ tracker'[c] = last'[c].box
           /\ track_started'[c])]_vars

\* a reseed of a tracker that was already live, from the detection of "a"
\* in the second snapshot
ReseedPriorityWitness ==
  /\ Steered(last[1]) /\ last[1].reseeded /\ ~last[1].seeded
  /\ tracked_name[1] = "a" /\ last[1].box = BoxDownRight /\ tracker[1] = BoxDownRight

\* C5  Never leave a camera moving: once stop() has been called on a camera
\* with an actuator bound, the last call its actuator received is a stop,
\* whichever queued frame updates are still delivered.
StopIsLast ==
  \A c \in Cams :
    (stop_called[c] /\ ptz_controller[c] # None) => CmdOfCall(lastSent[c]) = "stop"

\* C6  Toggling tracking off clears track_started, track_x/y/w/h and
\* last_request.
ToggleOffResets ==
  \A c \in Cams :
    (last[c].op = "set_tracking" /\ ~is_tracking[c])
    => (/\ track_started[c] = FALSE
        /\ track_x[c] = NoneI /\ track_y[c] = NoneI
        /\ track_w[c] = NoneI /\ track_h[c] = NoneI
        /\ last_request[c] = None)

\* C7  Changing the tracked identity clears track_started, track_x/y/w/h and
\* last_request.
IdentityChangeResets ==
  [][\A c \in Cams :
       tracked_name'[c] # tracked_name[c]
       => (/\ track_started'[c] = FALSE
           /\ track_x'[c] = NoneI /\ track_y'[c] = NoneI
           /\ track_w'[c] = NoneI /\ track_h'[c] = NoneI
           /\ last_request'[c] = None)]_vars

\* the frame that ends the quiet period: tracking enabled, reseeded from a detection
ReseedFrame(c) == FrameDone(c) /\ is_tracking[c] /\ last'[c].reseeded

ClassificationPriority ==
  \A c \in Cams :
    (Steered(last[c]) /\ last[c].req0 = None /\ ptz_controller[c] # None)
    => (/\ CmdsOf(disp[c]) = IF SpecCmd(last[c].box, last[c].dims) = None THEN <<>>
                             ELSE <<SpecCmd(last[c].box, last[c].dims)>>
        /\ last[c].dims = <<800, 600>> =>
             /\ last[c].box = BoxLeft => CmdsOf(disp[c]) = <<"left">>
             /\ last[c].box = BoxStop => CmdsOf(disp[c]) = <<"stop">>
             /\ last[c].box = BoxDownRight => CmdsOf(disp[c]) = <<"down_right">>)

\* the diagonal example of section 8 steered on from last_request = None
ClassificationPriorityWitness ==
  /\ Steered(last[1]) /\ last[1].req0 = None /\ ptz_controller[1] # None
  /\ last[1].dims = <<800, 600>> /\ last[1].box = BoxDownRight
  /\ CmdsOf(disp[1]) = <<"down_right">>

\* C4  Snapshot atomicity: the triples the loop of draw_on_frame iterates
\* all come from one and the same recognition result.
SnapshotAtomic ==
  [][\A c \in Cams :
       (ui_pc = "zip_confidence" /\ ui_cam = c /\ ui_pc' = "idle")
       => LET z == Zip(LocationsOf(rd_locs), NamesOf(rd_names),
                       ConfidenceOf(confidence_list[c]))
          IN \E k \in SnapIds :
               \A i \in DOMAIN z : i <= Len(Snapshots[k]) /\ z[i] = Snapshots[k][i]]_vars

\* what a camera's steering consists of
CamFields(c) ==
  <<is_tracking[c], tracked_name[c], track_started[c],
    track_x[c], track_y[c], track_w[c], track_h[c],
    last_request[c], disp[c], lastSent[c]>>

\* C9  Multi-camera isolation: a step of an operation on one camera leaves
\* the tracking flag, tracked identity, track_started, track_x/y/w/h,
\* last_request and the calls received by the actuator of every other camera
\* unchanged, and a click on any widget leaves them unchanged on all cameras.
CameraIsolation ==
  [][\A a \in Cams :
       /\ \A b \in Cams \ {a} : UNCHANGED CamFields(a) \/ ~IsoOps(b)
       /\ UNCHANGED CamFields(a) \/ CURRENT_ACTIVE_CAM_WIDGET' = CURRENT_ACTIVE_CAM_WIDGET]_vars

\* both cameras have steered, camera 2 last, with camera 2 selected
CameraIsolationWitness ==
  /\ Steered(last[2]) /\ disp[2] # <<>> /\ last_request[2] = "left"
  /\ last_request[1] = "left" /\ track_x[1] = 10 /\ is_tracking[1]
  /\ CURRENT_ACTIVE_CAM_WIDGET = 2

\* the ordered list of section 4.4 on the exact bounds w/9.2, w/1.2, h/18 and
\* h/1.6, each comparison multiplied out to integers
SpecCmdExact(b, dims) ==
  LET x == b[1]
      y == b[2]
      w == b[3]
      h == b[4]
      lt_min_x == 92 * x < 10 * dims[1]
      gt_min_x == 92 * x > 10 * dims[1]
      lt_max_x == 12 * w < 10 * dims[1]
      gt_max_x == 12 * w > 10 * dims[1]
      lt_min_y == 18 * y < dims[2]
      gt_min_y == 18 * y > dims[2]
      lt_max_y == 16 * h < 10 * dims[2]
      gt_max_y == 16 * h > 10 * dims[2]
  IN CASE gt_min_x /\ lt_max_x /\ gt_min_y /\ lt_max_y -> "stop"
       [] lt_min_y /\ lt_min_x -> "up_left"
       [] lt_min_y /\ gt_max_x -> "up_right"
       [] gt_max_y /\ lt_min_x -> "down_left"
       [] gt_max_y /\ gt_max_x -> "down_right"
       [] lt_min_y -> "up"
       [] gt_max_y -> "down"
       [] lt_min_x -> "left"
       [] gt_max_x -> "right"
       [] OTHER -> None

\* C11  Dead zone well-formed: on every frame of at least 160 x 120 pixels
\* on which track_face runs, the bounds it computes satisfy min_x < max_x
\* and min_y < max_y.
DeadZoneOrdered ==
  \A c \in Cams :
    (last[c].op = "frame" /\ last[c].entered
       /\ last[c].dims[1] >= 160 /\ last[c].dims[2] >= 120)
    => (last[c].zone.min_x < last[c].zone.max_x /\ last[c].zone.min_y < last[c].zone.max_y)

\* track_face has run on the smallest frame, where the zone is (17, 133, 6, 75)
DeadZoneOrderedWitness ==
  /\ last[1].op = "frame" /\ last[1].entered /\ last[1].dims = <<160, 120>>
  /\ last[1].zone = [min_x |-> 17, max_x |-> 133, min_y |-> 6, max_y |-> 75]

\* C12  Dead zone exact: on every frame of at least 160 x 120 pixels the
\* bounds track_face computes equal w/9.2, w/1.2, h/18 and h/1.6 without
\* rounding, and a box steered on from last_request = None gets the command
\* the ordered list gives on the exact bounds.
DeadZoneExact ==
  \A c \in Cams :
    (Steered(last[c]) /\ last[c].dims[1] >= 160 /\ last[c].dims[2] >= 120)
    => (/\ 92 * last[c].zone.min_x = 10 * last[c].dims[1]
        /\ 12 * last[c].zone.max_x = 10 * last[c].dims[1]
        /\ 18 * last[c].zone.min_y = last[c].dims[2]
        /\ 16 * last[c].zone.max_y = 10 * last[c].dims[2]
        /\ (last[c].req0 = None /\ ptz_controller[c] # None)
             => CmdsOf(disp[c]) = IF SpecCmdExact(last[c].box, last[c].dims) = None
                                    THEN <<>>
                                    ELSE <<SpecCmdExact(last[c].box, last[c].dims)>>)

\* C13  At most one command per frame: a run of update_image makes at most
\* one call on the actuator, whatever the box, last_request and binding.
OneCommandPerFrame ==
  \A c \in Cams : last[c].op = "frame" => Len(disp[c]) <= 1

\* a frame update on the NDI binding that sent its one command, leaving the
\* dead zone after a stop
OneCommandPerFrameWitness ==
  /\ Steered(last[1]) /\ ptz_is_usb[1] = "False" /\ last[1].req0 = "stop"
  /\ Len(disp[1]) = 1 /\ disp[1][1].api = "ndi" /\ CmdOfCall(disp[1][1]) # "stop"

\* C14  Skip when disabled: a frame update made while tracking is off or no
\* identity is chosen does not enter track_face (no tracker call, no command)
\* and completes with the annotated frame.
SkipWhenDisabled ==
  \A c \in Cams :
    (last[c].op = "frame" /\ (~is_tracking[c] \/ tracked_name[c] = None))
    => (~last[c].entered /\ ~last[c].raised /\ disp[c] = <<>>)

\* C16  Actuator unavailable: with no actuator bound, a frame update that
\* gets through track_face still reseeds or advances the tracker, and neither
\* a frame update nor set_tracking makes an actuator call or changes
\* last_request.
SilentWithoutActuator ==
  [][\A c \in Cams :
       (ptz_controller[c] = None /\ (FrameDone(c) \/ is_tracking'[c] # is_tracking[c]))
       => (/\ disp'[c] = <<>>
           /\ last_request'[c] = last_request[c]
           /\ (FrameDone(c) /\ Steered(last'[c]))
                => (/\ last'[c].reseeded \/ last'[c].advanced
                    /\ track_started'[c]
                    /\ tracker'[c] = last'[c].box))]_vars

\* the tracker advanced on a frame after the actuator was unbound, with the
\* command sent before the unbinding still recorded
SilentWithoutActuatorWitness ==
  /\ ptz_controller[1] = None /\ Steered(last[1]) /\ last[1].advanced
  /\ disp[1] = <<>> /\ last_request[1] = "left" /\ last[1].req0 = "left"

\* C17  TrackState invariant: track_x/y/w/h hold a box exactly when
\* track_started is true.
BoxIffStarted ==
  \A c \in Cams :
    (track_x[c] # NoneI /\ track_y[c] # NoneI /\ track_w[c] # NoneI /\ track_h[c] # NoneI)
      <=> track_started[c]

\* C20  Idle -> Seeded only from a fresh detection: a frame update that
\* starts the tracker while track_started is false starts it on the box of a
\* detection of the current snapshot labelled tracked_name.
SeedFromFreshDetection ==
  [][\A c \in Cams :
       (FrameDone(c) /\ last'[c].seeded)
       => <<track_x'[c], track_y'[c], track_w'[c], track_h'[c]>>
            \in MatchBoxes(Seen(c), tracked_name[c])]_vars

\* C15  Errors do not interrupt rendering: a run of update_image in which
\* the tracker call or the actuator call of track_face fails still gets the
\* frame back from draw_on_frame and displays it.
RenderingSurvivesErrors ==
  \A c \in Cams :
    (last[c].op = "frame" /\ last[c].failed \in Failures) => ~last[c].raised

\* C19  The frame update never blocks on the recognizer: delivered frames
\* keep being taken up (a full queue of them always shrinks) and every
\* update_image that has started runs to its end, even if the recognition
\* thread stops for good while holding the lock or before publishing anything.
NeverBlocksOnRecognizer ==
  /\ (pending[1] = MaxPending) ~> (pending[1] < MaxPending)
  /\ (ui_pc # "idle") ~> (ui_pc = "idle")

\* update_image is reading the snapshot while the recognition thread holds
\* the lock and has stored only part of its new result
NeverBlocksOnRecognizerWitness ==
  /\ ui_pc = "zip_names" /\ ui_cam = 1 /\ rd_locs # NoList
  /\ lock = 1 /\ proc_pc[1] = "w_names"

\* C18  Binding independence: two cameras given the same frames, snapshots,
\* toggles and identities, one on the USB and one on the NDI binding, are
\* sent the same commands by every handler run and hold the same
\* last_request after it; only the method called differs.
BindingIndependent ==
  /\ CmdsOf(disp[1]) = CmdsOf(disp[2])
  /\ last_request[1] = last_request[2]
  /\ \A i \in DOMAIN disp[1] : disp[1][i].api = "usb"
  /\ \A i \in DOMAIN disp[2] : disp[2][i].api = "ndi"

\* both cameras were sent down_right, one as move_right_down_track and one
\* as pan/tilt speeds (-0.1, -0.1)
BindingIndependentWitness ==
  /\ Steered(last[1]) /\ Steered(last[2])
  /\ disp[1] = <<[api |-> "usb", method |-> "move_right_down_track", pan |-> 0, tilt |-> 0]>>
  /\ disp[2] = <<[api |-> "ndi", method |-> "recv_ptz_pan_tilt_speed", pan |-> -1, tilt |-> -1]>>
  /\ last_request[1] = "down_right" /\ last_request[2] = "down_right"

\* C21  Predicting: a frame update made with tracking enabled and
\* track_started true on a snapshot holding no detection labelled
\* tracked_name advances the tracker, does not reinitialise it, and steers on
\* the box the tracker reports.
PredictWhenUnmatched ==
  [][\A c \in Cams :
       (FrameDone(c) /\ is_tracking[c] /\ track_started[c]
          /\ MatchBoxes(Seen(c), tracked_name[c]) = {})
       => (/\ Steered(last'[c])
           /\ last'[c].advanced /\ ~last'[c].reseeded /\ ~last'[c].seeded
           /\ last'[c].box \in PredBoxes
           /\ tracker'[c] = last'[c].box)]_vars

\* the box of the last entry of z labelled name
LastMatchBox(z, name) ==
  LET ms == {j \in DOMAIN z : z[j].name = name}
      k == CHOOSE j \in ms : \A m \in ms : j >= m
  IN <<z[k].loc[4], z[k].loc[1], z[k].loc[2], z[k].loc[3]>>

\* C22  Last match wins: a frame update made with tracking enabled on a
\* snapshot holding detections labelled tracked_name stores, reseeds with and
\* steers on the box of the last of them in iteration order.
LastMatchWins ==
  [][\A c \in Cams :
       (FrameDone(c) /\ is_tracking[c] /\ MatchBoxes(Seen(c), tracked_name[c]) # {})
       => (/\ last'[c].reseeded
           /\ last'[c].box = LastMatchBox(Seen(c), tracked_name[c])
           /\ tracker'[c] = LastMatchBox(Seen(c), tracked_name[c])
           /\ <<track_x'[c], track_y'[c], track_w'[c], track_h'[c]>>
                = LastMatchBox(Seen(c), tracked_name[c]))]_vars

\* "a" is reported at (700,50,750,400) and then at (10,40,50,60); the frame
\* steered on the second
LastMatchWinsWitness ==
  /\ face_locations[1] = 3 /\ face_names[1] = 3 /\ confidence_list[1] = 3
  /\ tracked_name[1] = "a" /\ Steered(last[1]) /\ last[1].reseeded
  /\ last[1].box = BoxLeft /\ tracker[1] = BoxLeft

\* C23  Overlay is pure annotation: a frame update that does not go on to
\* track_face, so that it only draws the detections, leaves track_started,
\* track_x/y/w/h, last_request, tracked_name and is_tracking as they were.
OverlayIsPure ==
  [][\A c \in Cams :
       (FrameDone(c) /\ ~last'[c].entered)
       => UNCHANGED <<track_started[c], track_x[c], track_y[c], track_w[c], track_h[c],
                      last_request[c], tracked_name[c], is_tracking[c]>>]_vars

\* C24  Stop on disable is debounced: the toggle that disables tracking
\* sends one stop when the last call sent was a move, and nothing when it
\* was a stop or no call had been sent.
StopOnDisableDebounced ==
  [][\A c \in Cams :
       (is_tracking[c] /\ ~is_tracking'[c])
       => IF lastSent[c] # NoCall /\ CmdOfCall(lastSent[c]) # "stop"
            THEN CmdsOf(disp'[c]) = <<"stop">>
            ELSE disp'[c] = <<>>]_vars

\* C25  Unbinding: set_ptz(None) on a camera with an actuator bound makes
\* one call on that actuator, a stop, and leaves ptz_controller None, on
\* either binding; with no actuator bound a frame update makes no call.
UnbindStopsFirst ==
  [][\A c \in Cams :
       /\ (ptz_controller[c] # None /\ last'[c].op = "set_ptz" /\ last'[c].arg = None)
            => (/\ Len(disp'[c]) = 1
                /\ CmdOfCall(disp'[c][1]) = "stop"
                /\ sentTo'[c][ptz_controller[c]] = disp'[c][1]
                /\ ptz_controller'[c] = None)
       /\ (ptz_controller[c] = None /\ FrameDone(c)) => disp'[c] = <<>>]_vars

\* C26  Selection pointer: a widget has its 'active' property true exactly
\* when CURRENT_ACTIVE_CAM_WIDGET refers to it (so at most one is active, and
\* none when the pointer is None); a click on the selected widget leaves the
\* pointer None, a click on another widget leaves the pointer on that widget.
SelectionPointer ==
  /\ [](\A c \in Cams : active[c] <=> CURRENT_ACTIVE_CAM_WIDGET = c)
  /\ [][\A c \in Cams :
         (CURRENT_ACTIVE_CAM_WIDGET' # CURRENT_ACTIVE_CAM_WIDGET
            /\ (CURRENT_ACTIVE_CAM_WIDGET' = c \/ CURRENT_ACTIVE_CAM_WIDGET = c))
           => (/\ CURRENT_ACTIVE_CAM_WIDGET = c => CURRENT_ACTIVE_CAM_WIDGET' \in {0} \cup (Cams \ {c})
               /\ CURRENT_ACTIVE_CAM_WIDGET' = c => (active'[c] /\ ~active[c])
               /\ \A d \in Cams \ {c} : CURRENT_ACTIVE_CAM_WIDGET' = c => ~active'[d])]_vars

\* widget 2 is the selected one and widget 1 is not, while camera 1 steers
SelectionPointerWitness ==
  /\ CURRENT_ACTIVE_CAM_WIDGET = 2 /\ active[2] /\ ~active[1]
  /\ is_tracking[1] /\ last_request[1] = "left"

\* C27  last_request describes the bound actuator: whenever an actuator is
\* bound and last_request is not None, the most recent call that actuator
\* received is the command last_request names.
LastRequestDescribesBound ==
  \A c \in Cams :
    (ptz_controller[c] # None /\ last_request[c] # None)
      => (/\ sentTo[c][ptz_controller[c]] # NoCall
          /\ CmdOfCall(sentTo[c][ptz_controller[c]]) = last_request[c])

\* C28  Classification is total: a frame update that steers with an actuator
\* bound and last_request = None makes exactly one call on the actuator,
\* whatever the box, a box with an edge equal to a dead-zone bound included.
ClassificationTotal ==
  \A c \in Cams :
    (Steered(last[c]) /\ last[c].req0 = None /\ ptz_controller[c] # None)
      => (Len(disp[c]) = 1 /\ last_request[c] = CmdOfCall(disp[c][1]))

\* C29  Steering stabilises: when two frame updates in a row steer on the
\* same box in the same frame size, with no other handler of the camera in
\* between, and both make a call on the actuator, the second call does not
\* return to the command that was in force before the first (the calls do
\* not alternate between two commands for a stationary box).
SteeringStabilises ==
  [][\A c \in Cams :
       (/\ FrameDone(c)
        /\ Steered(last[c]) /\ Steered(last'[c])
        /\ last'[c].box = last[c].box /\ last'[c].dims = last[c].dims
        /\ disp[c] # <<>> /\ disp'[c] # <<>>)
         => last_request'[c] # last[c].req0]_vars

\* C30  Prototype loop: on an iteration in which tracking is active the
\* tracker is advanced with update() only if the frame had no detection, on
\* a frame with a detection it is reseeded and not advanced, and no
\* start_track or update call is made on a null tracker.
ProtoAdvanceOnlyUnmatched ==
  protoLast.active
    => (/\ protoLast.advanced => protoLast.faces = 0
        /\ protoLast.faces > 0 => (protoLast.reseeded /\ ~protoLast.advanced)
        /\ ~protoLast.nullcall)

\* C31  Remove-face dialog: the retraining that follows the deletion of a
\* face folder is executed by the spawned worker thread, never by the UI
\* thread, and whenever the dialog has been closed after a removal the model
\* has been retrained on the folders that are left.
RetrainOnWorker ==
  /\ dlg.trained_by # "ui"
  /\ (dlg.window = "closed" /\ dlg.pc = "idle") => dlg.model = dlg.dirs

====
